---- MODULE Spec2Model ----
(***************************************************************************)
(* Model of jenkins_mcp/server.py: the tool dispatcher process_tool_call   *)
(* and the trigger_job handler _handle_trigger_job, one step per HTTP      *)
(* request the handler issues.  The Jenkins server is the environment:     *)
(* every request is answered by any response of a small set (a transport   *)
(* failure, several status codes, a body that parses as JSON or does not,  *)
(* JSON objects with or without the fields the handler reads).  JSON       *)
(* fields, when present, carry values of the type the Jenkins API gives    *)
(* them (a positive build number, a non-empty URL string, a boolean).      *)
(*                                                                         *)
(* Python strings are sequences of tokens; "/" is always a token of its    *)
(* own, so startswith("/") and rstrip("/") are computed on the tokens.     *)
(* An optional value (Python None or a value) is a sequence of length 0    *)
(* or 1.                                                                   *)
(***************************************************************************)
EXTENDS Integers, Sequences, FiniteSets, TLC

\* ------------------------------------------------------------- optionals
None == <<>>
Some(x) == <<x>>
IsSet(o) == o # <<>>

\* --------------------------------------------------------------- strings
SLASH == "/"

RECURSIVE rstrip(_)
\* str.rstrip("/"): drop every trailing "/"
rstrip(s) ==
    IF s # <<>> /\ s[Len(s)] = SLASH THEN rstrip(SubSeq(s, 1, Len(s) - 1)) ELSE s

\* str.startswith("/")
startswith(s) == s # <<>> /\ s[1] = SLASH

Digit(d) == CASE d = 0 -> "0" [] d = 1 -> "1" [] d = 2 -> "2" [] d = 3 -> "3"
              [] d = 4 -> "4" [] d = 5 -> "5" [] d = 6 -> "6" [] d = 7 -> "7"
              [] d = 8 -> "8" [] d = 9 -> "9"

RECURSIVE Str(_)
\* the decimal text an f-string gives a non-negative int
Str(n) == IF n < 10 THEN <<Digit(n)>> ELSE Str(n \div 10) \o <<Digit(n % 10)>>

\* Python truthiness of an optional string / optional int
TruthyStr(o) == IsSet(o) /\ o[1] # <<>>
TruthyInt(o) == IsSet(o) /\ o[1] # 0

\* ------------------------------------------------------ program constants
QueueAttemptsOffByOne == 30 + 1
QUEUE_ATTEMPTS == 30
BuildAttemptsOffByOne == 60 + 1
BUILD_ATTEMPTS == 60

DEFAULT_URL == <<"http://localhost:8081">>
NO_JSON_MESSAGE == <<"Triggered (no JSON body)">>
CONSOLE_FAILED == <<"Unable to fetch console output">>

\* -------------------------------------------------- inputs of the model
URL_PLAIN == <<"http://jenkins">>
URL_SLASH == <<"http://jenkins", "/">>
JOB == <<"job1">>

\* argument mappings a caller passes to trigger_job
TriggerArguments ==
    { [job_name |-> JOB],
      [jenkins_url |-> URL_SLASH, job_name |-> JOB,
       parameters |-> {<<"branch", "main">>},
       username |-> <<"alice">>, api_token |-> <<"tok-a">>],
      [jenkins_url |-> URL_PLAIN, job_name |-> JOB, username |-> <<"alice">>] }

\* os.environ as far as the handler reads it
Environments ==
    { [JENKINS_USERNAME |-> None, JENKINS_API_TOKEN |-> None],
      [JENKINS_USERNAME |-> Some(<<"bob">>), JENKINS_API_TOKEN |-> Some(<<"tok-b">>)] }

TRANSPORT_ERROR == [ok |-> FALSE]

\* a response object: status, the parsed JSON body (None when .json() raises),
\* the raw text and the Location header
Response(status, json, text, location) ==
    [ok |-> TRUE, status_code |-> status, json |-> json, text |-> text,
     location |-> location]

CrumbObjects ==
    { [crumbRequestField |-> Some(<<"Jenkins-Crumb">>), crumb |-> Some(<<"c0ffee">>)],
      [crumbRequestField |-> Some(<<"Jenkins-Crumb">>), crumb |-> None],
      [crumbRequestField |-> None, crumb |-> Some(<<"c0ffee">>)],
      [crumbRequestField |-> None, crumb |-> None] }

CrumbResponses ==
    {TRANSPORT_ERROR} \cup
    { Response(s, j, <<>>, None) :
        s \in {200, 403}, j \in {None} \cup {Some(o) : o \in CrumbObjects} }

LOCATION_RELATIVE == <<"/", "queue", "/", "item", "/", "5", "/">>
LOCATION_ABSOLUTE == <<"http://jenkins", "/", "queue", "/", "item", "/", "5", "/">>

SubmitResponses ==
    {TRANSPORT_ERROR} \cup
    { Response(201, None, <<>>, Some(LOCATION_RELATIVE)),
      Response(200, Some(<<"{}">>), <<"{}">>, None),
      Response(200, None, <<"ok">>, None),
      Response(202, Some(<<"{}">>), <<"{}">>, Some(<<>>)),
      Response(204, None, <<>>, None),
      Response(403, None, <<"forbidden">>, None),
      Response(404, Some(<<"{}">>), <<"{}">>, None),
      Response(500, None, <<"oops">>, Some(LOCATION_ABSOLUTE)) }

BuildNumbers == {7}
REPORTED_URL == <<"http://ci.example", "/", "job", "/", "job1", "/", "7", "/">>

Executables ==
    { [number |-> Some(n), url |-> u] :
        n \in BuildNumbers, u \in {None, Some(REPORTED_URL)} }
    \cup { [number |-> None, url |-> Some(REPORTED_URL)] }

QueueObjects ==
    { [executable |-> None] } \cup { [executable |-> Some(e)] : e \in Executables }

QueueResponses ==
    {TRANSPORT_ERROR} \cup
    { Response(s, j, <<>>, None) :
        s \in {200, 404}, j \in {None} \cup {Some(o) : o \in QueueObjects} }

BuildObjects ==
    { [building |-> Some(TRUE)], [building |-> Some(FALSE)], [building |-> None] }

BuildResponses ==
    {TRANSPORT_ERROR} \cup
    { Response(s, j, <<>>, None) :
        s \in {200, 503}, j \in {None} \cup {Some(o) : o \in BuildObjects} }

ConsoleResponses ==
    {TRANSPORT_ERROR} \cup
    { Response(200, None, <<"Finished: SUCCESS">>, None),
      Response(200, None, <<>>, None),
      Response(404, None, <<"Not Found">>, None) }

\* ------------------------------------------------------------------ state
VARIABLES
    tools,      \* self.tools: the catalog, tool name -> tool definition
    environ,    \* os.environ
    call        \* per invocation: position (pc), the handler's locals, the requests
                \* issued (count, sent), what the server answered (crumb_issued: a
                \* crumb; queue_down: nothing but transport failures and unparseable
                \* bodies to the queue polls; finished: building=false) and the
                \* envelope returned (ret)

vars == <<tools, environ, call>>

\* --------------------------------------------------------- the dispatcher
\* a tool definition: its description and, of its inputSchema, the names of the
\* properties and the required list
Tool(description, properties, required) ==
    [description |-> description, properties |-> properties, required |-> required]

\* _initialize_tools
CATALOG ==
    ("get_jenkins_status" :>
        Tool("Get the current status of a Jenkins server",
             {"jenkins_url"}, <<"jenkins_url">>))
    @@ ("list_jobs" :>
        Tool("List all jobs on a Jenkins server",
             {"jenkins_url", "filter"}, <<"jenkins_url">>))
    @@ ("get_job_info" :>
        Tool("Get detailed information about a Jenkins job",
             {"jenkins_url", "job_name"}, <<"jenkins_url", "job_name">>))
    @@ ("trigger_job" :>
        Tool("Trigger a Jenkins job build",
             {"jenkins_url", "job_name", "parameters"}, <<"jenkins_url", "job_name">>))

\* the methods _handle_<tool_name> of the class
HANDLERS == {"get_jenkins_status", "list_jobs", "get_job_info", "trigger_job"}

\* tool names a caller passes
ToolNames == DOMAIN CATALOG \cup {"unknown_tool", "deploy_job"}

\* an arguments value that is no mapping: Python None
NOT_A_MAPPING == [NoneType |-> TRUE]

IsMapping(arguments) == "NoneType" \notin DOMAIN arguments

\* str(e) of the AttributeError that arguments.get raises on None
ATTRIBUTE_ERROR == <<"'NoneType' object has no attribute 'get'">>

\* argument mappings a caller passes to the three placeholder tools
PlaceholderArguments ==
    { [job_name |-> JOB],
      [jenkins_url |-> URL_PLAIN, filter |-> <<"example">>],
      [jenkins_url |-> URL_SLASH, job_name |-> JOB] }

\* the arguments a caller passes with a tool name
ArgumentsFor(tool_name) ==
    {NOT_A_MAPPING} \cup
    (IF tool_name = "trigger_job" THEN TriggerArguments ELSE PlaceholderArguments)

NoRequests == [crumb |-> 0, submit |-> 0, queue |-> 0, build |-> 0, console |-> 0]

\* an invocation that has not been made yet
IdleCall ==
    [pc |-> "idle", tool_name |-> "", arguments |-> [job_name |-> JOB],
     jenkins_url |-> <<>>, job_name |-> <<>>, parameters |-> {}, auth |-> None,
     api_url |-> <<>>, headers |-> {}, status_code |-> None, api_body |-> <<>>,
     response |-> None,
     queue_url |-> None, queue_item |-> None, build_number |-> None,
     build_url |-> None, console_output |-> <<>>, i |-> 0,
     count |-> NoRequests, sent |-> {}, crumb_issued |-> FALSE, queue_down |-> FALSE,
     finished |-> FALSE,
     ret |-> None]

\* dict.get(key, default) on the argument mapping
ArgGet(arguments, key, default) ==
    IF key \in DOMAIN arguments THEN arguments[key] ELSE default

\* arguments.get(key) or os.getenv(name)
ArgOrEnv(arguments, key, env, name) ==
    IF key \in DOMAIN arguments /\ arguments[key] # <<>>
    THEN Some(arguments[key])
    ELSE env[name]

\* credentials sent as soon as a username is there, with or without a token
BasicAuthUsernameOnly(username, api_token) ==
    IF TruthyStr(username)
    THEN Some(<<username[1], IF IsSet(api_token) THEN api_token[1] ELSE <<>>>>)
    ELSE None

\* HTTPBasicAuth(username, api_token) if username and api_token else None
BasicAuth(username, api_token) ==
    IF TruthyStr(username) /\ TruthyStr(api_token)
    THEN Some(<<username[1], api_token[1]>>) ELSE None

BuildEndpoint(parameters) == IF parameters # {} THEN "buildWithParameters" ELSE "build"

\* a request as the requests library receives it
Request(method, url, auth, headers, data) ==
    [method |-> method, url |-> url, auth |-> auth, headers |-> headers, data |-> data]

\* the record c with one more request of the given kind issued
Issue(c, kind, req) ==
    [c EXCEPT !.count[kind] = @ + 1, !.sent = @ \cup {req}]

\* status_code in (200, 201, 202), read as any status below 300
AcceptedBelow300(status_code) == IsSet(status_code) /\ status_code[1] < 300

\* status_code in (200, 201, 202)
Accepted(status_code) == status_code \in {Some(200), Some(201), Some(202)}

\* The dictionary _handle_trigger_job returns.
TriggerResult(c) ==
    [jenkins_url |-> c.jenkins_url,
     job_name |-> c.job_name,
     triggered |-> Accepted(c.status_code),
     status_code |-> c.status_code,
     parameters_sent |-> c.parameters,
     api_response |-> c.api_body,
     api_response_text |-> <<"dumps", c.api_body>>,
     queue_url |-> c.queue_url,
     queue_item |-> c.queue_item,
     build_number |-> c.build_number,
     build_url |-> c.build_url,
     console_output |-> c.console_output]

\* process_tool_call wraps what the handler returned
Success(result) == [success |-> TRUE, result |-> result]
Failure(message) == [success |-> FALSE, error |-> message]

\* the envelope for an unknown tool, without the tool's name
UnknownToolUnnamed(tool_name) == Failure(<<"Unknown tool">>)

\* lines 160-164: the envelope for a tool name that is not in the catalog
UnknownTool(tool_name) == Failure(<<"Unknown tool: ", tool_name>>)

\* lines 168-172: the envelope for a catalog name without a handler method
NoHandler(tool_name) == Failure(<<"No handler for tool: ", tool_name>>)

\* the envelope for a handler's exception, with a fixed text for the message
HandlerFailedGeneric(message) == Failure(<<"Internal error">>)

\* lines 180-184: the envelope for an exception the handler raised, str(e)
HandlerFailed(message) == Failure(message)

\* a status handler whose answer depends on the process environment
HandleGetJenkinsStatusFromEnv(arguments) ==
    [jenkins_url |-> ArgGet(arguments, "jenkins_url", DEFAULT_URL),
     status |-> IF IsSet(environ.JENKINS_USERNAME) THEN "healthy" ELSE "unknown",
     message |-> "Jenkins server is operational, Please note that this is a demo Impl."]

\* _handle_get_jenkins_status
HandleGetJenkinsStatus(arguments) ==
    [jenkins_url |-> ArgGet(arguments, "jenkins_url", DEFAULT_URL),
     status |-> "healthy",
     message |-> "Jenkins server is operational, Please note that this is a demo Impl."]

\* _handle_list_jobs
HandleListJobs(arguments) ==
    [jenkins_url |-> ArgGet(arguments, "jenkins_url", DEFAULT_URL),
     jobs |-> <<[name |-> "example-job-1", status |-> "stable"],
                [name |-> "example-job-2", status |-> "unstable"]>>,
     filter_applied |-> ArgGet(arguments, "filter", <<>>)]

\* _handle_get_job_info
HandleGetJobInfo(arguments) ==
    [jenkins_url |-> ArgGet(arguments, "jenkins_url", DEFAULT_URL),
     job_name |-> IF "job_name" \in DOMAIN arguments
                  THEN Some(arguments.job_name) ELSE None,
     status |-> "stable",
     last_build |-> 42,
     last_build_status |-> "success"]

\* what the placeholder handler of tool_name returns
Placeholder(tool_name, arguments) ==
    CASE tool_name = "get_jenkins_status" -> HandleGetJenkinsStatus(arguments)
      [] tool_name = "list_jobs" -> HandleListJobs(arguments)
      [] tool_name = "get_job_info" -> HandleGetJobInfo(arguments)

\* the handler returns: process_tool_call returns the success envelope
Return(c) == [c EXCEPT !.pc = "returned", !.ret = Some(Success(TriggerResult(c)))]

\* _handle_trigger_job up to its first HTTP request
TriggerStart(c, arguments, env) ==
    LET jenkins_url == ArgGet(arguments, "jenkins_url", DEFAULT_URL)
        job_name == arguments.job_name
        parameters == ArgGet(arguments, "parameters", {})
        username == ArgOrEnv(arguments, "username", env, "JENKINS_USERNAME")
        api_token == ArgOrEnv(arguments, "api_token", env, "JENKINS_API_TOKEN")
        auth == BasicAuth(username, api_token)
    IN  [c EXCEPT !.jenkins_url = jenkins_url, !.job_name = job_name,
                  !.parameters = parameters, !.auth = auth,
                  !.api_url = jenkins_url \o <<SLASH, "job", SLASH>> \o job_name
                              \o <<SLASH, BuildEndpoint(parameters)>>,
                  !.pc = IF IsSet(auth) THEN "crumb" ELSE "submit"]

\* get_tools()
get_tools == tools

\* a dispatcher that enters every name it is called with into self.tools
ToolsAfterCallRegistering(tool_name) ==
    [n \in DOMAIN tools \cup {tool_name} |->
        IF n \in DOMAIN tools THEN tools[n] ELSE Tool("", {}, <<>>)]

\* self.tools after process_tool_call: line 160 reads it, nothing assigns it
ToolsAfterCall(tool_name) == tools

\* process_tool_call up to the handler's first HTTP request (or its return)
Dispatch(tool_name, arguments, env) ==
    LET c == [IdleCall EXCEPT !.tool_name = tool_name, !.arguments = arguments]
    IN  IF tool_name \notin DOMAIN tools
        THEN [c EXCEPT !.pc = "returned", !.ret = Some(UnknownTool(tool_name))]
        ELSE IF tool_name \notin HANDLERS
        THEN [c EXCEPT !.pc = "returned", !.ret = Some(NoHandler(tool_name))]
        ELSE IF ~IsMapping(arguments)
        THEN [c EXCEPT !.pc = "returned",
                       !.ret = Some(HandlerFailed(ATTRIBUTE_ERROR))]
        ELSE IF tool_name = "trigger_job"
        THEN TriggerStart(c, arguments, env)
        ELSE [c EXCEPT !.pc = "returned",
                       !.ret = Some(Success(Placeholder(tool_name, arguments)))]

\* process_tool_call(tool_name, arguments)
ProcessToolCall(t, tool_name, arguments) ==
    /\ call[t].pc \in {"idle", "returned"}
    /\ call' = [call EXCEPT ![t] = Dispatch(tool_name, arguments, environ)]
    /\ tools' = ToolsAfterCall(tool_name)
    /\ UNCHANGED environ

\* ------------------------------------------------------ crumb (248-260)
\* the crumb header of any answer that carries both fields, whatever its status
CrumbHeadersAnyStatus(resp) ==
    IF /\ resp.ok
       /\ IsSet(resp.json)
       /\ TruthyStr(resp.json[1].crumbRequestField)
       /\ TruthyStr(resp.json[1].crumb)
    THEN {<<resp.json[1].crumbRequestField[1], resp.json[1].crumb[1]>>}
    ELSE {}

\* the headers the crumb answer leaves: the crumb header on HTTP 200 with both
\* fields truthy, nothing on any other answer or on an exception
CrumbHeaders(resp) ==
    IF /\ resp.ok
       /\ resp.status_code = 200
       /\ IsSet(resp.json)
       /\ TruthyStr(resp.json[1].crumbRequestField)
       /\ TruthyStr(resp.json[1].crumb)
    THEN {<<resp.json[1].crumbRequestField[1], resp.json[1].crumb[1]>>}
    ELSE {}

\* the handler's locals after the crumb request was answered with resp
CrumbStep(c, resp) ==
    LET req == Request("GET", c.jenkins_url \o <<SLASH, "crumbIssuer/api/json">>,
                       c.auth, None, None)
    IN  [Issue(c, "crumb", req) EXCEPT
             !.headers = CrumbHeaders(resp),
             !.crumb_issued = /\ resp.ok
                              /\ resp.status_code = 200
                              /\ IsSet(resp.json)
                              /\ IsSet(resp.json[1].crumbRequestField)
                              /\ IsSet(resp.json[1].crumb),
             !.pc = "submit"]

CrumbRequest(t, resp) ==
    /\ call[t].pc = "crumb"
    /\ call' = [call EXCEPT ![t] = CrumbStep(call[t], resp)]
    /\ UNCHANGED <<tools, environ>>

\* ----------------------------------------------------- submit (262-297)
\* status_code after the POST: the answer's status, None when the POST raised
SubmitStatus(resp) == IF resp.ok THEN Some(resp.status_code) ELSE None

\* api_body after the POST, with the body parsed as JSON whatever the status
SubmitBodyJsonFirst(resp) ==
    IF ~resp.ok THEN <<"error", <<"ConnectionError">>>>
    ELSE IF IsSet(resp.json) THEN <<"json", resp.json[1]>>
         ELSE IF Accepted(Some(resp.status_code))
              THEN <<"message", NO_JSON_MESSAGE>>
              ELSE <<"error", resp.text>>

\* api_body after the POST
SubmitBody(resp) ==
    IF ~resp.ok THEN <<"error", <<"ConnectionError">>>>
    ELSE IF resp.status_code < 400
         THEN IF IsSet(resp.json) THEN <<"json", resp.json[1]>>
              ELSE IF Accepted(Some(resp.status_code))
                   THEN <<"message", NO_JSON_MESSAGE>>
                   ELSE <<"error", resp.text>>
         ELSE <<"error", resp.text>>

\* the Location header, with the job's own URL standing in for a missing one
LocationOrJob(response) ==
    IF ~IsSet(response) THEN None
    ELSE IF IsSet(response[1].location) THEN response[1].location
         ELSE Some(<<SLASH, "job", SLASH>> \o JOB)

\* the Location header of an answer below 400 only
LocationIfAccepted(response) ==
    IF IsSet(response) /\ response[1].status_code < 400
    THEN response[1].location ELSE None

\* the Location header; None when there is no response object
Location(response) == IF IsSet(response) THEN response[1].location ELSE None

\* the absolute queue URL of a truthy Location
QueueUrl(jenkins_url, location) ==
    IF startswith(location) THEN rstrip(jenkins_url) \o location ELSE location

\* headers or None
HeadersOrNone(headers) == IF headers # {} THEN Some(headers) ELSE None

\* line 314: the build phase is entered with a build URL and a build number
HasBuild(c) == TruthyStr(c.build_url) /\ TruthyInt(c.build_number)

\* after the queue phase: poll the build, or return the result
AfterQueue(c) ==
    IF HasBuild(c) THEN [c EXCEPT !.pc = "build", !.i = 0] ELSE Return(c)

\* the handler's locals after the submit POST was answered with resp
SubmitStep(c, resp) ==
    LET req == Request("POST", c.api_url, c.auth, HeadersOrNone(c.headers),
                       IF c.parameters # {} THEN Some(c.parameters) ELSE None)
        response == IF resp.ok THEN Some(resp) ELSE None
        location == Location(response)
        posted == [Issue(c, "submit", req) EXCEPT
                       !.status_code = SubmitStatus(resp),
                       !.api_body = SubmitBody(resp),
                       !.response = response]
    IN  IF TruthyStr(location)
        THEN [posted EXCEPT !.queue_url = Some(QueueUrl(c.jenkins_url, location[1])),
                            !.queue_down = TRUE,
                            !.pc = "queue", !.i = 0]
        ELSE AfterQueue(posted)

\* a handler that keeps status_code on the server object, shared by all calls
SubmitPostShared(t, resp) ==
    /\ call[t].pc = "submit"
    /\ call' = [u \in DOMAIN call |->
                   IF u = t THEN SubmitStep(call[t], resp)
                   ELSE [call[u] EXCEPT !.status_code = SubmitStatus(resp)]]
    /\ UNCHANGED <<tools, environ>>

SubmitPost(t, resp) ==
    /\ call[t].pc = "submit"
    /\ call' = [call EXCEPT ![t] = SubmitStep(call[t], resp)]
    /\ UNCHANGED <<tools, environ>>

\* ------------------------------------------------- queue poll (297-311)
\* the poll found an executable with a build number
Resolves(resp) ==
    /\ resp.ok
    /\ resp.status_code = 200
    /\ IsSet(resp.json)
    /\ IsSet(resp.json[1].executable)
    /\ TruthyInt(resp.json[1].executable[1].number)

\* the synthesized URL, whatever URL the executable reports
BuildUrlSynthesized(exe, jenkins_url, job_name) ==
    rstrip(jenkins_url) \o <<SLASH, "job", SLASH>> \o job_name \o <<SLASH>>
    \o Str(exe.number[1]) \o <<SLASH>>

\* exe.get("url") or f"{jenkins_url.rstrip('/')}/job/{job_name}/{build_number}/"
BuildUrl(exe, jenkins_url, job_name) ==
    IF TruthyStr(exe.url) THEN exe.url[1]
    ELSE rstrip(jenkins_url) \o <<SLASH, "job", SLASH>> \o job_name \o <<SLASH>>
         \o Str(exe.number[1]) \o <<SLASH>>

\* lines 305-307 without queue_item = qj
ResolveWithoutSnapshot(c, qj) ==
    LET exe == qj.executable[1]
    IN  [c EXCEPT !.build_number = exe.number,
                  !.build_url = Some(BuildUrl(exe, c.jenkins_url, c.job_name))]

\* lines 305-307: the build number, the build URL and the queue item snapshot
Resolve(c, qj) ==
    LET exe == qj.executable[1]
    IN  [c EXCEPT !.build_number = exe.number,
                  !.build_url = Some(BuildUrl(exe, c.jenkins_url, c.job_name)),
                  !.queue_item = Some(qj)]

\* the handler's locals after a queue poll was answered with resp
QueueStep(c, resp) ==
    LET req == Request("GET", rstrip(c.queue_url[1]) \o <<SLASH, "api/json">>,
                       c.auth, None, None)
        polled == [Issue(c, "queue", req) EXCEPT
                       !.queue_down = @ /\ (~resp.ok \/ ~IsSet(resp.json))]
    IN  IF Resolves(resp)
        THEN AfterQueue(Resolve(polled, resp.json[1]))
        ELSE IF c.i + 1 < QUEUE_ATTEMPTS
             THEN [polled EXCEPT !.i = c.i + 1]
             ELSE AfterQueue(polled)

QueuePoll(t, resp) ==
    /\ call[t].pc = "queue"
    /\ call[t].i < QUEUE_ATTEMPTS
    /\ call' = [call EXCEPT ![t] = QueueStep(call[t], resp)]
    /\ UNCHANGED <<tools, environ>>

\* ------------------------------------------------- build poll (314-325)
\* a failed poll taken for the end of the build
FinishedOrFailed(resp) ==
    \/ ~resp.ok
    \/ ~IsSet(resp.json)
    \/ resp.status_code = 200 /\ resp.json[1].building = Some(FALSE)

\* not bj.get("building") on an HTTP 200 answer: a missing field ends the loop
FinishedNoDefault(resp) ==
    /\ resp.ok
    /\ resp.status_code = 200
    /\ IsSet(resp.json)
    /\ resp.json[1].building # Some(TRUE)

\* not bj.get("building", True) on an HTTP 200 answer
Finished(resp) ==
    /\ resp.ok
    /\ resp.status_code = 200
    /\ IsSet(resp.json)
    /\ resp.json[1].building = Some(FALSE)

\* a build loop after which the queue is polled again while attempts are left
AfterBuildLoopRequeue(c) ==
    IF c.count.queue < QUEUE_ATTEMPTS
    THEN [c EXCEPT !.pc = "queue", !.i = c.count.queue]
    ELSE [c EXCEPT !.pc = "console"]

\* the console is fetched only after a build seen finished
AfterBuildLoopIfFinished(c) ==
    IF c.finished THEN [c EXCEPT !.pc = "console"] ELSE Return(c)

\* line 327: whatever ended the loop, the console fetch comes next
AfterBuildLoop(c) == [c EXCEPT !.pc = "console"]

\* the handler's locals after a build poll was answered with resp
BuildStep(c, resp) ==
    LET req == Request("GET", rstrip(c.build_url[1]) \o <<SLASH, "api/json">>,
                       c.auth, None, None)
        polled == Issue(c, "build", req)
    IN  IF Finished(resp)
        THEN AfterBuildLoop([polled EXCEPT !.finished = TRUE])
        ELSE IF c.i + 1 < BUILD_ATTEMPTS
             THEN [polled EXCEPT !.i = c.i + 1]
             ELSE AfterBuildLoop(polled)

BuildPoll(t, resp) ==
    /\ call[t].pc = "build"
    /\ call[t].i < BUILD_ATTEMPTS
    /\ call' = [call EXCEPT ![t] = BuildStep(call[t], resp)]
    /\ UNCHANGED <<tools, environ>>

\* ---------------------------------------------- console fetch (327-333)
ConsoleOutput(resp, console_output) ==
    IF ~resp.ok THEN CONSOLE_FAILED
    ELSE IF resp.status_code = 200 THEN resp.text ELSE console_output

\* the handler's locals after the console fetch was answered with resp
ConsoleStep(c, resp) ==
    LET req == Request("GET", rstrip(c.build_url[1]) \o <<SLASH, "consoleText">>,
                       c.auth, None, None)
    IN  Return([Issue(c, "console", req) EXCEPT
                    !.console_output = ConsoleOutput(resp, c.console_output)])

ConsoleFetch(t, resp) ==
    /\ call[t].pc = "console"
    /\ call' = [call EXCEPT ![t] = ConsoleStep(call[t], resp)]
    /\ UNCHANGED <<tools, environ>>

\* ---------------------------------------------------------- specification
\* the invocations of a run: one thread calling process_tool_call
Calls == {1}

Init ==
    /\ tools = CATALOG
    /\ environ \in Environments
    /\ call = [t \in Calls |-> IdleCall]

\* one step of a running handler
Step(t) ==
        \/ \E r \in CrumbResponses : CrumbRequest(t, r)
        \/ \E r \in SubmitResponses : SubmitPost(t, r)
        \/ \E r \in QueueResponses : QueuePoll(t, r)
        \/ \E r \in BuildResponses : BuildPoll(t, r)
        \/ \E r \in ConsoleResponses : ConsoleFetch(t, r)

Next ==
    \E t \in DOMAIN call :
        \/ \E n \in ToolNames : \E a \in ArgumentsFor(n) : ProcessToolCall(t, n, a)
        \/ \E r \in CrumbResponses : CrumbRequest(t, r)
        \/ \E r \in SubmitResponses : SubmitPost(t, r)
        \/ \E r \in QueueResponses : QueuePoll(t, r)
        \/ \E r \in BuildResponses : BuildPoll(t, r)
        \/ \E r \in ConsoleResponses : ConsoleFetch(t, r)

Spec == Init /\ [][Next]_vars

\* Every HTTP request has a timeout and the handler runs to completion on its
\* thread: a handler that can take its next step takes it.
FairSpec == Spec /\ \A t \in Calls : WF_vars(Step(t))

\* ------------------------------------------- two concurrent invocations
\* two threads calling process_tool_call("trigger_job", ...) on one server
ConcCalls == {1, 2}

JOB2 == <<"job2">>

ConcArguments ==
    { [job_name |-> JOB],
      [jenkins_url |-> URL_SLASH, job_name |-> JOB2,
       username |-> <<"alice">>, api_token |-> <<"tok-a">>] }

\* the server resolves a queue item, and finishes a build, by this poll at the
\* latest
MaxPolls == 2

ConcCrumbResponses ==
    { TRANSPORT_ERROR,
      Response(200, Some([crumbRequestField |-> Some(<<"Jenkins-Crumb">>),
                          crumb |-> Some(<<"c0ffee">>)]), <<>>, None) }

ConcSubmitResponses ==
    { Response(201, None, <<>>, Some(LOCATION_RELATIVE)),
      Response(404, Some(<<"{}">>), <<"{}">>, None),
      Response(500, None, <<"oops">>, Some(LOCATION_ABSOLUTE)) }

ConcQueueResponses(i) ==
    { Response(200, Some([executable |-> Some(e)]), <<>>, None) :
        e \in {x \in Executables : IsSet(x.number) /\ ~IsSet(x.url)} }
    \cup (IF i + 1 < MaxPolls
          THEN {Response(200, Some([executable |-> None]), <<>>, None)}
          ELSE {})

ConcBuildResponses(i) ==
    { Response(200, Some([building |-> Some(FALSE)]), <<>>, None) }
    \cup (IF i + 1 < MaxPolls
          THEN {Response(200, Some([building |-> Some(TRUE)]), <<>>, None)}
          ELSE {})

ConcConsoleResponses ==
    { Response(200, None, <<"Finished: SUCCESS">>, None),
      Response(404, None, <<"Not Found">>, None) }

ConcInit ==
    /\ tools = CATALOG
    /\ environ \in Environments
    /\ call = [t \in ConcCalls |-> IdleCall]

\* either thread takes its next step, in any order
ConcNext ==
    \E t \in ConcCalls :
        \/ \E a \in ConcArguments : ProcessToolCall(t, "trigger_job", a)
        \/ \E r \in ConcCrumbResponses : CrumbRequest(t, r)
        \/ \E r \in ConcSubmitResponses : SubmitPost(t, r)
        \/ \E r \in ConcQueueResponses(call[t].i) : QueuePoll(t, r)
        \/ \E r \in ConcBuildResponses(call[t].i) : BuildPoll(t, r)
        \/ \E r \in ConcConsoleResponses : ConsoleFetch(t, r)

ConcSpec == ConcInit /\ [][ConcNext]_vars

\* ------------------------------------------------------------ properties
Running(c) == c.pc \notin {"idle", "returned"}

\* a trigger_job invocation that has returned its result
TriggerReturned(c) ==
    /\ c.pc = "returned"
    /\ c.tool_name = "trigger_job"
    /\ IsSet(c.ret)
    /\ c.ret[1].success

Result(c) == c.ret[1].result

WithinBudget(c) ==
    /\ c.count.crumb <= 1
    /\ c.count.submit <= 1
    /\ c.count.queue <= 30
    /\ c.count.build <= 60
    /\ c.count.console <= 1
    /\ (TriggerReturned(c) => c.count.submit = 1)

\* C1: every trigger_job call returns, whatever the server answers, and by
\* then it has issued at most 1 crumb request, exactly 1 submit POST, at most
\* 30 queue polls, at most 60 build polls and at most 1 console fetch.
C1_TerminatesWithinBudget ==
    /\ [](\A t \in Calls : WithinBudget(call[t]))
    /\ \A t \in Calls : Running(call[t]) ~> TriggerReturned(call[t])

\* a call that used its whole budget: every loop ran to its last attempt
C1_Witness ==
    \E t \in DOMAIN call :
        /\ TriggerReturned(call[t])
        /\ call[t].count = [crumb |-> 1, submit |-> 1, queue |-> 30, build |-> 60,
                            console |-> 1]

\* the status the server answered the submit POST with is 200, 201 or 202
SubmitAnswered2xx(c) ==
    IsSet(c.response) /\ c.response[1].status_code \in {200, 201, 202}

\* C2: in the result of trigger_job, triggered is true exactly when the submit
\* POST was answered with status 200, 201 or 202, whatever the other phases did.
C2_TriggeredIffSubmitStatus ==
    \A t \in DOMAIN call :
        TriggerReturned(call[t]) =>
            (Result(call[t]).triggered <=> SubmitAnswered2xx(call[t]))

\* triggered is reported although the queue item never resolved
C2_Witness ==
    \E t \in DOMAIN call :
        /\ TriggerReturned(call[t])
        /\ Result(call[t]).triggered
        /\ call[t].count.queue = 30
        /\ ~IsSet(Result(call[t]).build_number)

NoLocationHeader(c) ==
    c.count.submit = 1 /\ IsSet(c.response) /\ ~IsSet(c.response[1].location)

\* C3: a submit response without a Location header ends the call at once: no
\* queue poll, build poll or console request, queue_url and build_number None,
\* console_output empty, triggered as the submit status decides.
C3_NoLocationNoPolling ==
    \A t \in DOMAIN call :
        NoLocationHeader(call[t]) =>
            /\ TriggerReturned(call[t])
            /\ call[t].count.queue = 0
            /\ call[t].count.build = 0
            /\ call[t].count.console = 0
            /\ Result(call[t]).queue_url = None
            /\ Result(call[t]).build_number = None
            /\ Result(call[t]).console_output = <<>>
            /\ (Result(call[t]).triggered <=> SubmitAnswered2xx(call[t]))

C3_Witness ==
    \E t \in DOMAIN call :
        /\ NoLocationHeader(call[t])
        /\ TriggerReturned(call[t])
        /\ call[t].response[1].status_code = 200
        /\ Result(call[t]).triggered

\* the answer is HTTP 200 with an executable that carries a build number
AnswersBuildNumber(r) ==
    /\ r.ok
    /\ r.status_code = 200
    /\ IsSet(r.json)
    /\ IsSet(r.json[1].executable)
    /\ IsSet(r.json[1].executable[1].number)

\* the build URL for an executable: the one it reports, else
\* {base_url}/job/{job_name}/{number}/ on the base URL without trailing slash
ExpectedBuildUrl(c, exe) ==
    IF IsSet(exe.url) THEN exe.url[1]
    ELSE rstrip(c.jenkins_url) \o <<SLASH, "job", SLASH>> \o c.job_name
         \o <<SLASH>> \o Str(exe.number[1]) \o <<SLASH>>

SameCall(t) == Running(call[t])

\* C4: a queue poll answered, on attempt k, with HTTP 200 and an executable
\* with a build number is the k-th and last queue poll of the call: the call
\* goes on to build polling with that build number and the build URL (the
\* reported one, or the synthesized one when the answer has none), and no
\* queue poll follows.
C4_ResolvingPollIsLast ==
    /\ [][\A t \in Calls : \A r \in QueueResponses :
            (AnswersBuildNumber(r) /\ QueuePoll(t, r)) =>
                LET k == call[t].i + 1
                    exe == r.json[1].executable[1]
                IN  /\ k \in 1..30
                    /\ call[t].count.queue = k - 1
                    /\ call'[t].count.queue = k
                    /\ call'[t].pc = "build"
                    /\ call'[t].count.build = 0
                    /\ call'[t].build_number = exe.number
                    /\ call'[t].build_url = Some(ExpectedBuildUrl(call[t], exe))]_vars
    /\ [][\A t \in Calls :
            (IsSet(call[t].build_number) /\ SameCall(t)) =>
                call'[t].count.queue = call[t].count.queue]_vars

\* resolved on the 30th attempt, without a reported URL, for a base URL that
\* ends with a slash
C4_Witness ==
    \E t \in DOMAIN call :
        /\ call[t].pc = "build"
        /\ call[t].count.queue = 30
        /\ call[t].jenkins_url = URL_SLASH
        /\ call[t].build_number = Some(7)
        /\ call[t].build_url =
               Some(<<"http://jenkins", "/", "job", "/", "job1", "/", "7", "/">>)

\* C5: once a build URL is resolved the call fetches the console exactly once,
\* after its last build poll, whether the build loop saw building=false or
\* used up its 60 attempts without seeing it.
C5_ConsoleFetchedOnce ==
    \A t \in DOMAIN call :
        /\ (TriggerReturned(call[t]) /\ IsSet(call[t].build_url)) =>
               /\ call[t].count.console = 1
               /\ call[t].count.build \in 1..60
               /\ (call[t].finished \/ call[t].count.build = 60)
        /\ (Running(call[t]) /\ IsSet(call[t].build_url)) =>
               /\ call[t].count.console = 0
               /\ call[t].pc \in {"build", "console"}
        /\ call[t].count.console >= 1 => call[t].pc = "returned"

\* 60 build polls, none of which saw building=false, then the console fetch
C5_Witness ==
    \E t \in DOMAIN call :
        /\ TriggerReturned(call[t])
        /\ ~call[t].finished
        /\ call[t].count.build = 60
        /\ call[t].count.console = 1

\* C6: the console fetch gives console_output the body verbatim on HTTP 200
\* and a non-empty sentinel on every failure, a non-200 status included.
C6_ConsoleSentinelOnAnyFailure ==
    [][\A t \in Calls : \A r \in ConsoleResponses :
          ConsoleFetch(t, r) =>
              IF r.ok /\ r.status_code = 200
              THEN call'[t].console_output = r.text
              ELSE call'[t].console_output # <<>>]_vars

\* the answer does not resolve the queue item: a non-200 answer, a 200 answer
\* without an executable build number, an unparseable body, a transport error
Unresolving(r) == ~AnswersBuildNumber(r)

\* C7: when the 30th queue poll, like the 29 before it, brings no resolution,
\* the call returns after exactly 30 queue polls with no build poll and no
\* console request, build_number and build_url unset, console_output empty and
\* queue_url set.
C7_QueueExhausted ==
    /\ [](\A t \in Calls :
            call[t].pc = "queue" =>
                /\ call[t].count.queue = call[t].i
                /\ ~IsSet(call[t].build_number))
    /\ [][\A t \in Calls : \A r \in QueueResponses :
            (call[t].i = 29 /\ Unresolving(r) /\ QueuePoll(t, r)) =>
                /\ TriggerReturned(call'[t])
                /\ call'[t].count.queue = 30
                /\ call'[t].count.build = 0
                /\ call'[t].count.console = 0
                /\ Result(call'[t]).build_number = None
                /\ Result(call'[t]).build_url = None
                /\ Result(call'[t]).console_output = <<>>
                /\ IsSet(Result(call'[t]).queue_url)]_vars

C7_Witness ==
    \E t \in DOMAIN call :
        /\ TriggerReturned(call[t])
        /\ call[t].count.queue = 30
        /\ call[t].count.build = 0
        /\ Result(call[t]).build_number = None
        /\ Result(call[t]).queue_url = Some(LOCATION_ABSOLUTE)

Tracking(c) == <<c.build_number, c.build_url, c.queue_item>>

AllUnset(c) == Tracking(c) = <<None, None, None>>

AllSet(c) ==
    IsSet(c.build_number) /\ IsSet(c.build_url) /\ IsSet(c.queue_item)

\* C8: build_number, build_url and queue_item are all unset or all set, in
\* every state of a call and in its result; one step sets them, together: a
\* queue poll.
C8_BuildFieldsTogether ==
    /\ [](\A t \in Calls :
            /\ AllUnset(call[t]) \/ AllSet(call[t])
            /\ TriggerReturned(call[t]) =>
                   /\ Result(call[t]).build_number = call[t].build_number
                   /\ Result(call[t]).build_url = call[t].build_url
                   /\ Result(call[t]).queue_item = call[t].queue_item)
    /\ [][\A t \in Calls :
            (Running(call[t]) /\ Tracking(call'[t]) # Tracking(call[t])) =>
                /\ call[t].pc = "queue"
                /\ call'[t].count.queue = call[t].count.queue + 1
                /\ AllUnset(call[t])
                /\ AllSet(call'[t])]_vars

C8_Witness ==
    \E t \in DOMAIN call :
        /\ TriggerReturned(call[t])
        /\ AllSet(Result(call[t]))
        /\ Result(call[t]).build_url = Some(REPORTED_URL)

\* the request raises: a transport error, or a body that does not parse
Raises(r) == ~r.ok \/ ~IsSet(r.json)

\* C9: a transport error or an unparseable body on the crumb request, a queue
\* poll or a build poll does not fail the call: the attempt is one of its
\* loop's 30 or 60, the next attempt (or, after the last, the next phase)
\* follows, and the envelope of a returned trigger_job call has success=true.
C9_PollErrorsSwallowed ==
    /\ [](\A t \in Calls :
            (call[t].pc = "returned" /\ call[t].tool_name = "trigger_job"
               /\ IsMapping(call[t].arguments)) =>
                IsSet(call[t].ret) /\ call[t].ret[1].success)
    /\ [][\A t \in Calls : \A r \in CrumbResponses :
            (Raises(r) /\ CrumbRequest(t, r)) => call'[t].pc = "submit"]_vars
    /\ [][\A t \in Calls : \A r \in QueueResponses :
            (Raises(r) /\ QueuePoll(t, r)) =>
                /\ call'[t].count.queue = call[t].count.queue + 1
                /\ IF call[t].i + 1 < 30
                   THEN call'[t].pc = "queue" /\ call'[t].i = call[t].i + 1
                   ELSE TriggerReturned(call'[t])]_vars
    /\ [][\A t \in Calls : \A r \in BuildResponses :
            (Raises(r) /\ BuildPoll(t, r)) =>
                /\ call'[t].count.build = call[t].count.build + 1
                /\ IF call[t].i + 1 < 60
                   THEN call'[t].pc = "build" /\ call'[t].i = call[t].i + 1
                   ELSE call'[t].pc = "console"]_vars

\* every one of the 30 queue polls raised, and the call returned success
C9_Witness ==
    \E t \in DOMAIN call :
        /\ TriggerReturned(call[t])
        /\ call[t].queue_down
        /\ call[t].count.queue = 30

SubmitRequests(c) == {q \in c.sent : q.method = "POST"}

\* C10: with credentials, a crumb request that does not answer 200 with both
\* fields leaves the submit POST to be sent, once, without a crumb header; a
\* submit POST carries a crumb header only after such an answer.
C10_SubmitWithoutCrumb ==
    \A t \in DOMAIN call :
        /\ \A q \in SubmitRequests(call[t]) :
               IsSet(q.headers) =>
                   /\ call[t].crumb_issued
                   /\ q.headers = Some({<<<<"Jenkins-Crumb">>, <<"c0ffee">>>>})
        /\ (TriggerReturned(call[t]) /\ IsSet(call[t].auth)
              /\ ~call[t].crumb_issued) =>
               /\ call[t].count.crumb = 1
               /\ call[t].count.submit = 1
               /\ \A q \in SubmitRequests(call[t]) : q.headers = None
               /\ SubmitRequests(call[t]) # {}

C10_Witness ==
    \E t \in DOMAIN call :
        /\ TriggerReturned(call[t])
        /\ call[t].auth = Some(<<<<"alice">>, <<"tok-b">>>>)
        /\ ~call[t].crumb_issued
        /\ call[t].count.submit = 1
        /\ \A q \in SubmitRequests(call[t]) : q.headers = None

\* the submit POST failed: it raised, or was answered with a status >= 400
SubmitFailed(c) ==
    /\ c.count.submit = 1
    /\ ~IsSet(c.response) \/ c.response[1].status_code >= 400

\* C11: a submit POST that raises or is answered with a status >= 400 does not
\* fail the call: the envelope has success=true, and the result has
\* triggered=false, that status as status_code (None when the POST raised) and
\* the error body or the exception's message under api_response.
C11_FailedSubmitIsReported ==
    \A t \in DOMAIN call :
        (call[t].tool_name = "trigger_job" /\ SubmitFailed(call[t])) =>
            /\ call[t].pc \in {"queue", "build", "console", "returned"}
            /\ call[t].pc = "returned" =>
                   /\ IsSet(call[t].ret)
                   /\ call[t].ret[1].success
                   /\ ~Result(call[t]).triggered
                   /\ Result(call[t]).status_code =
                          (IF IsSet(call[t].response)
                           THEN Some(call[t].response[1].status_code) ELSE None)
                   /\ Result(call[t]).api_response =
                          <<"error", IF IsSet(call[t].response)
                                     THEN call[t].response[1].text
                                     ELSE <<"ConnectionError">>>>

\* a 404 answer with a JSON body, reported as an error
C11_Witness ==
    \E t \in DOMAIN call :
        /\ TriggerReturned(call[t])
        /\ SubmitFailed(call[t])
        /\ Result(call[t]).status_code = Some(404)
        /\ Result(call[t]).api_response = <<"error", <<"{}">>>>

\* C12: for a tool of the catalog, an error its handler raises comes back as
\* the envelope {success: false, error: the error's message}, a normal return
\* as {success: true, result: the handler's return value}; every call that
\* has returned has an envelope.
C12_HandlerOutcomeEnveloped ==
    \A t \in DOMAIN call :
        call[t].pc = "returned" =>
            /\ IsSet(call[t].ret)
            /\ call[t].tool_name
                 \in {"get_jenkins_status", "list_jobs", "get_job_info", "trigger_job"} =>
                   IF "NoneType" \in DOMAIN call[t].arguments
                   THEN call[t].ret[1] =
                            [success |-> FALSE,
                             error |-> <<"'NoneType' object has no attribute 'get'">>]
                   ELSE call[t].ret[1] =
                            [success |-> TRUE,
                             result |-> IF call[t].tool_name = "trigger_job"
                                        THEN TriggerResult(call[t])
                                        ELSE Placeholder(call[t].tool_name,
                                                         call[t].arguments)]

\* list_jobs called with None for its arguments: the handler's AttributeError
C12_Witness ==
    \E t \in DOMAIN call :
        /\ call[t].pc = "returned"
        /\ call[t].tool_name = "list_jobs"
        /\ call[t].arguments = NOT_A_MAPPING
        /\ ~call[t].ret[1].success

\* C13: a call with a tool name that is not in the catalog returns at once the
\* envelope {success: false, error: "Unknown tool: " + the name}; no handler
\* runs (no local of a handler is set, no result is produced) and no HTTP
\* request is made.
C13_UnknownToolRejected ==
    \A t \in DOMAIN call :
        (call[t].pc # "idle"
           /\ call[t].tool_name
                \notin {"get_jenkins_status", "list_jobs", "get_job_info", "trigger_job"}) =>
            /\ call[t].pc = "returned"
            /\ call[t].ret =
                   Some([success |-> FALSE,
                         error |-> <<"Unknown tool: ", call[t].tool_name>>])
            /\ call[t].count =
                   [crumb |-> 0, submit |-> 0, queue |-> 0, build |-> 0, console |-> 0]
            /\ call[t].sent = {}
            /\ call[t].jenkins_url = <<>>
            /\ call[t].api_url = <<>>

\* an unknown tool called with None for its arguments: no handler, no
\* AttributeError
C13_Witness ==
    \E t \in DOMAIN call :
        /\ call[t].pc = "returned"
        /\ call[t].tool_name = "deploy_job"
        /\ call[t].arguments = NOT_A_MAPPING
        /\ call[t].ret[1].error = <<"Unknown tool: ", "deploy_job">>

\* the step of call t ends with record c for t and every other call's record
\* as it was
Alone(t, c) ==
    /\ call'[t] = c
    /\ \A u \in ConcCalls \ {t} : call'[u] = call[u]

\* what a call's record and requests are made of: its own arguments, the
\* tracking values of its own record
OwnRecord(c) ==
    /\ c.job_name = c.arguments.job_name
    /\ c.jenkins_url =
           (IF "jenkins_url" \in DOMAIN c.arguments
            THEN c.arguments.jenkins_url ELSE <<"http://localhost:8081">>)
    /\ \A q \in c.sent :
           /\ q.auth = c.auth
           /\ q.method = "POST" =>
                  q.url = c.jenkins_url \o <<"/", "job", "/">> \o c.job_name
                          \o <<"/", IF c.parameters # {} THEN "buildWithParameters"
                                    ELSE "build">>
    /\ TriggerReturned(c) =>
           /\ Result(c).job_name = c.arguments.job_name
           /\ Result(c).status_code = c.status_code
           /\ Result(c).queue_url = c.queue_url
           /\ Result(c).queue_item = c.queue_item
           /\ Result(c).build_number = c.build_number
           /\ Result(c).build_url = c.build_url
           /\ Result(c).console_output = c.console_output

\* C14: two trigger_job calls interleaved in any order are independent: every
\* step is a step of one call, it takes that call's record to what the call
\* alone would reach from its own record on the same answer, and it leaves the
\* other call's record as it was; a call's record and result are made of its
\* own arguments and of the answers to its own requests.
C14_ConcurrentCallsIndependent ==
    /\ [][\A t \in ConcCalls :
            /\ \A a \in ConcArguments :
                   ProcessToolCall(t, "trigger_job", a) =>
                       Alone(t, Dispatch("trigger_job", a, environ))
            /\ \A r \in CrumbResponses :
                   CrumbRequest(t, r) => Alone(t, CrumbStep(call[t], r))
            /\ \A r \in SubmitResponses :
                   SubmitPost(t, r) => Alone(t, SubmitStep(call[t], r))
            /\ \A r \in QueueResponses :
                   QueuePoll(t, r) => Alone(t, QueueStep(call[t], r))
            /\ \A r \in BuildResponses :
                   BuildPoll(t, r) => Alone(t, BuildStep(call[t], r))
            /\ \A r \in ConsoleResponses :
                   ConsoleFetch(t, r) => Alone(t, ConsoleStep(call[t], r))]_vars
    /\ [][\E t \in ConcCalls : \A u \in ConcCalls \ {t} : call'[u] = call[u]]_vars
    /\ [](\A t \in ConcCalls : call[t].pc # "idle" => OwnRecord(call[t]))

\* one call has returned a failed submit with a finished build while the
\* other, for another job, is between two queue polls after an accepted submit
C14_Witness ==
    /\ DOMAIN call = ConcCalls
    /\ TriggerReturned(call[1])
    /\ call[1].job_name = JOB
    /\ Result(call[1]).status_code = Some(500)
    /\ Result(call[1]).build_number = Some(7)
    /\ call[2].pc = "queue"
    /\ call[2].job_name = JOB2
    /\ call[2].status_code = Some(201)
    /\ call[2].count.queue = 1
    /\ call[2].build_number = None

\* the credential a call has under key: the argument when given and not
\* empty, else the environment variable
Credential(c, key, name) ==
    IF key \in DOMAIN c.arguments /\ c.arguments[key] # <<>>
    THEN Some(c.arguments[key]) ELSE environ[name]

\* C15: when a username and an API token are both available (each from the
\* arguments or, failing that, from the environment) every request of the
\* trigger_job call carries them as basic-auth credentials; when one of them
\* is missing no request carries credentials and no crumb request is issued.
C15_CredentialsOnEveryRequest ==
    \A t \in DOMAIN call :
        (call[t].tool_name = "trigger_job" /\ "NoneType" \notin DOMAIN call[t].arguments) =>
            LET username == Credential(call[t], "username", "JENKINS_USERNAME")
                api_token == Credential(call[t], "api_token", "JENKINS_API_TOKEN")
            IN  IF /\ username # <<>> /\ username[1] # <<>>
                   /\ api_token # <<>> /\ api_token[1] # <<>>
                THEN \A q \in call[t].sent :
                         q.auth = Some(<<username[1], api_token[1]>>)
                ELSE /\ \A q \in call[t].sent : q.auth = None
                     /\ call[t].count.crumb = 0

\* the username from the arguments and the token from the environment, on the
\* requests of all five kinds
C15_Witness ==
    \E t \in DOMAIN call :
        /\ TriggerReturned(call[t])
        /\ call[t].arguments = [jenkins_url |-> URL_PLAIN, job_name |-> JOB,
                                username |-> <<"alice">>]
        /\ call[t].count.crumb = 1
        /\ call[t].count.queue >= 1
        /\ call[t].count.build >= 1
        /\ call[t].count.console = 1
        /\ \A q \in call[t].sent : q.auth = Some(<<<<"alice">>, <<"tok-b">>>>)

\* C16: the catalog is fixed at construction: no step changes self.tools, and
\* get_tools() is always the catalog of construction, with exactly the names
\* get_jenkins_status, list_jobs, get_job_info and trigger_job.
C16_CatalogFixed ==
    /\ [](/\ DOMAIN get_tools
               = {"get_jenkins_status", "list_jobs", "get_job_info", "trigger_job"}
          /\ get_tools = CATALOG
          /\ get_tools["trigger_job"].description = "Trigger a Jenkins job build"
          /\ get_tools["get_job_info"].required = <<"jenkins_url", "job_name">>)
    /\ [][tools' = tools]_vars

\* after a call with an unknown tool name the catalog has its four names
C16_Witness ==
    \E t \in DOMAIN call :
        /\ call[t].pc = "returned"
        /\ call[t].tool_name = "unknown_tool"
        /\ ~call[t].ret[1].success
        /\ Cardinality(DOMAIN get_tools) = 4

\* C17: get_jenkins_status, list_jobs and get_job_info make no HTTP request,
\* and the envelope they return is success=true with a result that is a
\* function of the tool and its arguments alone, whatever the environment and
\* whatever was called before: status "healthy", the same two jobs.
C17_PlaceholdersPure ==
    \A t \in DOMAIN call :
        (call[t].tool_name \in {"get_jenkins_status", "list_jobs", "get_job_info"}
           /\ "NoneType" \notin DOMAIN call[t].arguments) =>
            LET a == call[t].arguments
                url == IF "jenkins_url" \in DOMAIN a THEN a.jenkins_url
                       ELSE <<"http://localhost:8081">>
                expected ==
                    CASE call[t].tool_name = "get_jenkins_status" ->
                           [jenkins_url |-> url,
                            status |-> "healthy",
                            message |-> "Jenkins server is operational, Please note that this is a demo Impl."]
                      [] call[t].tool_name = "list_jobs" ->
                           [jenkins_url |-> url,
                            jobs |-> <<[name |-> "example-job-1", status |-> "stable"],
                                       [name |-> "example-job-2", status |-> "unstable"]>>,
                            filter_applied |-> IF "filter" \in DOMAIN a THEN a.filter
                                               ELSE <<>>]
                      [] call[t].tool_name = "get_job_info" ->
                           [jenkins_url |-> url,
                            job_name |-> IF "job_name" \in DOMAIN a
                                         THEN <<a.job_name>> ELSE <<>>,
                            status |-> "stable",
                            last_build |-> 42,
                            last_build_status |-> "success"]
            IN  /\ call[t].pc = "returned"
                /\ call[t].ret = <<[success |-> TRUE, result |-> expected]>>
                /\ call[t].count =
                       [crumb |-> 0, submit |-> 0, queue |-> 0, build |-> 0, console |-> 0]
                /\ call[t].sent = {}

\* get_jenkins_status without a URL, in an environment without credentials
C17_Witness ==
    \E t \in DOMAIN call :
        /\ call[t].pc = "returned"
        /\ call[t].tool_name = "get_jenkins_status"
        /\ call[t].arguments = [job_name |-> JOB]
        /\ environ.JENKINS_USERNAME = None
        /\ call[t].ret[1].result.status = "healthy"
        /\ call[t].ret[1].result.jenkins_url = <<"http://localhost:8081">>

\* C18: a step of a running call issues one request of one phase, and the
\* phases come in order: a crumb request before anything else, the submit POST
\* before any queue poll, queue polls before build polls, build polls before
\* the console fetch, and nothing of an earlier phase after a later one; a
\* build poll or the console fetch only with a build URL a queue poll resolved.
C18_PhasesInOrder ==
    [][\A t \in Calls :
          SameCall(t) =>
              LET a == call[t].count
                  b == call'[t].count
              IN  /\ (b.crumb + b.submit + b.queue + b.build + b.console)
                       = (a.crumb + a.submit + a.queue + a.build + a.console) + 1
                  /\ b.crumb > a.crumb =>
                         a.crumb + a.submit + a.queue + a.build + a.console = 0
                  /\ b.submit > a.submit =>
                         a.submit + a.queue + a.build + a.console = 0
                  /\ b.queue > a.queue =>
                         a.submit = 1 /\ a.build + a.console = 0
                  /\ b.build > a.build =>
                         /\ a.submit = 1 /\ a.queue >= 1 /\ a.console = 0
                         /\ IsSet(call[t].build_url) /\ IsSet(call[t].queue_item)
                  /\ b.console > a.console =>
                         /\ a.submit = 1 /\ a.queue >= 1 /\ a.build >= 1 /\ a.console = 0
                         /\ IsSet(call[t].build_url) /\ IsSet(call[t].queue_item)]_vars

\* a call that went through all five phases
C18_Witness ==
    \E t \in DOMAIN call :
        /\ TriggerReturned(call[t])
        /\ call[t].count = [crumb |-> 1, submit |-> 1, queue |-> 3, build |-> 2,
                            console |-> 1]

\* the answer is HTTP 200 with building equal to false
BuildingFalse(r) ==
    /\ r.ok
    /\ r.status_code = 200
    /\ IsSet(r.json)
    /\ r.json[1].building = Some(FALSE)

\* C19: the build poll of attempt j that is answered HTTP 200 with
\* building=false is the j-th and last build poll; any other answer (not 200,
\* building=true, 200 without a building field, an error) counts as attempt j
\* and is followed by attempt j+1, or by the end of the loop when j = 60.
C19_BuildPollingStops ==
    /\ [](\A t \in Calls :
            /\ call[t].pc = "build" =>
                   call[t].count.build = call[t].i /\ ~call[t].finished
            /\ call[t].finished => call[t].pc \in {"console", "returned"})
    /\ [][\A t \in Calls : \A r \in BuildResponses :
            BuildPoll(t, r) =>
                LET j == call[t].i + 1
                IN  /\ j \in 1..60
                    /\ call'[t].count.build = j
                    /\ IF BuildingFalse(r)
                       THEN call'[t].pc = "console" /\ call'[t].finished
                       ELSE /\ ~call'[t].finished
                            /\ IF j < 60
                               THEN call'[t].pc = "build" /\ call'[t].i = j
                               ELSE call'[t].pc = "console"]_vars
    /\ [][\A t \in Calls :
            (call[t].finished /\ SameCall(t)) =>
                call'[t].count.build = call[t].count.build]_vars

\* building=false seen on the second build poll
C19_Witness ==
    \E t \in DOMAIN call :
        /\ call[t].pc = "console"
        /\ call[t].finished
        /\ call[t].count.build = 2

\* the submit answer carried a Location header that is not empty
Located(c) ==
    /\ IsSet(c.response)
    /\ IsSet(c.response[1].location)
    /\ c.response[1].location[1] # <<>>

\* C20: after the submit POST the call polls the queue exactly when the answer
\* carried a non-empty Location header, whatever its status.
C20_QueueIffLocation ==
    \A t \in DOMAIN call :
        (call[t].tool_name = "trigger_job" /\ call[t].count.submit = 1) =>
            /\ (call[t].pc = "queue" \/ call[t].count.queue > 0) <=> Located(call[t])
            /\ IsSet(call[t].queue_url) <=> Located(call[t])

\* a submit answered 500 with a Location: triggered=false with a build number,
\* a build URL and the console text
C20_Witness ==
    \E t \in DOMAIN call :
        /\ TriggerReturned(call[t])
        /\ ~Result(call[t]).triggered
        /\ Result(call[t]).status_code = Some(500)
        /\ Result(call[t]).build_number = Some(7)
        /\ IsSet(Result(call[t]).build_url)
        /\ Result(call[t]).console_output = <<"Finished: SUCCESS">>

====
